---- MODULE Spec2Model ----
(***************************************************************************)
(* The mood views of moodmo (src/moods/views.py) as a state machine over   *)
(* the Mood table.  A request is received, one step runs the whole view    *)
(* for it (dispatch, form handling, queries, save) and leaves the response *)
(* next to the request, and the exchange is closed.                        *)
(***************************************************************************)
EXTENDS Integers, Sequences, FiniteSets, TLC

VARIABLES
    store,      \* the rows of the Mood table, in insertion (primary key) order
    pc,         \* "idle", "received" (a request waits for its view), "responded"
    request,    \* the request being served
    response    \* the response of the view

vars == <<store, pc, request, response>>

\* Capacity of the table in the model: a request whose rows would not fit
\* does not arrive.
MaxEntries == 2

\* The largest table a round trip through export and import starts from.
MaxExported == 2

Users == {"u1", "u2"}

(***************************************************************************)
(* Values                                                                  *)
(***************************************************************************)

\* The text fields of a Mood as a form or a file carries them.
Contents ==
    { [mood |-> "happy", note_title |-> "T", note |-> "N"],
      [mood |-> "sad",   note_title |-> "U", note |-> "M"] }

\* A timestamp is a date-time text or a datetime object.  A text has a
\* notation: "exact" is YYYY-MM-DD HH:MM:SS +-HHMM, "iso" is a date-time in
\* another notation (2024-01-01T10:00:00+00:00), "junk" is no date-time at
\* all ("not-a-date").  sec is the local wall-clock second, off the UTC
\* offset, sub the sub-second part (a text in these notations has none).
Text(form, sec, off) ==
    [kind |-> "text", form |-> form, sec |-> sec, sub |-> 0, off |-> off]

Datetime(sec, sub, off) ==
    [kind |-> "datetime", form |-> "object", sec |-> sec, sub |-> sub, off |-> off]

ExactText == Text("exact", 3, 1)
IsoText   == Text("iso", 1, 0)
JunkText  == Text("junk", 0, 0)

\* timezone.now() at the time of a create request: not on a second boundary.
Now == Datetime(1, 1, 0)

\* The point in time a datetime denotes, in half seconds.
Instant(dt) == (dt.sec - dt.off) * 2 + dt.sub

\* A wrong format check: any text that denotes a date-time is taken.
strptime_ok_lenient(text) == text.kind = "text" /\ text.form \in {"exact", "iso"}

\* datetime.strptime(text, "%Y-%m-%d %H:%M:%S %z"): defined on texts in the
\* exact notation only (strptime_ok); anything else raises ValueError.
strptime_ok(text) == text.kind = "text" /\ text.form = "exact"

strptime(text) == Datetime(text.sec, 0, text.off)

\* A wrong formatter: the wall-clock second is rounded up, not truncated.
strftime_rounded(dt) == Text("exact", dt.sec + dt.sub, dt.off)

\* dt.strftime("%Y-%m-%d %H:%M:%S %z"): the sub-second part is not printed.
strftime(dt) == Text("exact", dt.sec, dt.off)

\* The value the timestamp column hands back for a stored value: a datetime
\* is itself, a date-time text is the datetime it denotes.
to_python(ts) ==
    IF ts.kind = "datetime" THEN ts ELSE Datetime(ts.sec, ts.sub, ts.off)

\* Whether the timestamp column accepts a value: any datetime, any text that
\* denotes a date-time.
column_accepts(ts) == ts.kind = "datetime" \/ ts.form \in {"exact", "iso"}

\* Mood(user=..., mood=..., note_title=..., note=..., timestamp=...).
\* creator is a history field: the user whose request built the object.
Mood(user, mood, note_title, note, timestamp, creator) ==
    [user |-> user, mood |-> mood, note_title |-> note_title, note |-> note,
     timestamp |-> timestamp, creator |-> creator]

(***************************************************************************)
(* Requests and responses                                                  *)
(***************************************************************************)

NoContent ==
    [fmt |-> "none", valid |-> FALSE, header |-> <<>>, rows |-> <<>>, doc |-> <<>>]

NoFile == [name |-> <<>>, content |-> NoContent]

NoForm == [mood |-> "", note_title |-> "", note |-> "", user |-> "nobody"]

\* The fields every request record has; a request fills in its own.
NoRequest ==
    [op |-> "none", user |-> "nobody", form |-> NoForm, target |-> 0,
     file |-> NoFile, export_format |-> ""]

\* The fields every response record has; a view fills in its own.
Blank ==
    [status |-> "none", error |-> "", exception |-> "none", parsed |-> FALSE,
     built |-> 0, listing |-> <<>>, download |-> NoContent]

Init ==
    /\ store = <<>>
    /\ pc = "idle"
    /\ request = NoRequest
    /\ response = Blank

(***************************************************************************)
(* MoodListView                                                            *)
(***************************************************************************)

\* ListView.get_queryset() with model = Mood and no override: every row.
MoodListView_queryset(user) == store

MoodListView(user) ==
    /\ response' = [Blank EXCEPT !.status = "ok",
                                 !.listing = MoodListView_queryset(user)]
    /\ UNCHANGED store

(***************************************************************************)
(* MoodCreateView                                                          *)
(***************************************************************************)

\* A wrong form_valid: the owner is read from the submitted form.
form_valid_create_from_form(user, form) ==
    Mood(form.user, form.mood, form.note_title, form.note, Now, user)

\* form.instance.user = self.request.user; the other fields come from the
\* form, the timestamp is the submission time.
form_valid_create(user, form) ==
    Mood(user, form.mood, form.note_title, form.note, Now, user)

MoodCreateView(user, form) ==
    /\ store' = Append(store, form_valid_create(user, form))
    /\ response' = [Blank EXCEPT !.status = "redirect"]

(***************************************************************************)
(* MoodUpdateView, MoodDeleteView                                          *)
(***************************************************************************)

\* UserIsOwnerMixin: the request passes only when the object's user is the
\* requesting user; otherwise the view answers 403.
UserIsOwnerMixin(user, obj) == obj.user = user

\* SetUserMixin: the saved instance's user is the requesting user.
SetUserMixin(user, obj) == [obj EXCEPT !.user = user]

Forbidden == [Blank EXCEPT !.status = "forbidden", !.exception = "PermissionDenied"]

\* A wrong view: UserIsOwnerMixin is left out of the bases.
MoodUpdateView_any_user(user, pk, form) ==
    /\ pk \in 1..Len(store)
    /\ store' = [store EXCEPT ![pk] =
                    SetUserMixin(user, [@ EXCEPT !.mood = form.mood,
                                                 !.note_title = form.note_title,
                                                 !.note = form.note])]
    /\ response' = [Blank EXCEPT !.status = "redirect"]

\* UpdateView over MoodForm, behind UserIsOwnerMixin and SetUserMixin: the
\* owner's form values replace the row's text fields in place.
MoodUpdateView(user, pk, form) ==
    /\ pk \in 1..Len(store)
    /\ IF UserIsOwnerMixin(user, store[pk])
       THEN /\ store' = [store EXCEPT ![pk] =
                            SetUserMixin(user, [@ EXCEPT !.mood = form.mood,
                                                         !.note_title = form.note_title,
                                                         !.note = form.note])]
            /\ response' = [Blank EXCEPT !.status = "redirect"]
       ELSE /\ response' = Forbidden
            /\ UNCHANGED store

\* DeleteView behind UserIsOwnerMixin: the owner's POST removes the row.
MoodDeleteView(user, pk) ==
    /\ pk \in 1..Len(store)
    /\ IF UserIsOwnerMixin(user, store[pk])
       THEN /\ store' = SubSeq(store, 1, pk - 1) \o SubSeq(store, pk + 1, Len(store))
            /\ response' = [Blank EXCEPT !.status = "redirect"]
       ELSE /\ response' = Forbidden
            /\ UNCHANGED store

\* LoginRequiredMixin, first base of every view: a request without an
\* authenticated user is sent to the login page and reaches no handler.
LoginRequiredMixin ==
    /\ response' = [Blank EXCEPT !.status = "login"]
    /\ UNCHANGED store

(***************************************************************************)
(* Uploaded files                                                          *)
(***************************************************************************)

\* A wrong test: the suffix may stand anywhere in the name.
contains(name, suffix) ==
    \E i \in 1..Len(name) :
        /\ i + Len(suffix) - 1 <= Len(name)
        /\ SubSeq(name, i, i + Len(suffix) - 1) = suffix

\* str.endswith on file names, which are sequences of characters.
endswith(name, suffix) ==
    /\ Len(name) >= Len(suffix)
    /\ SubSeq(name, Len(name) - Len(suffix) + 1, Len(name)) = suffix

DotCsv  == <<".", "c", "s", "v">>
DotJson == <<".", "j", "s", "o", "n">>

CsvName  == <<"m">> \o DotCsv
JsonName == <<"m">> \o DotJson
OtherNames ==
    { <<"m", ".", "t", "x", "t">>, <<"m", ".", "C", "S", "V">>,
      <<"m", ".", "c", "s", "v", ".", "b", "a", "k">> }

\* The columns a Mood is built from, in the order the view looks them up.
Columns == <<"mood", "note_title", "note", "timestamp">>

Object(c, ts) ==
    [mood |-> c.mood, note_title |-> c.note_title, note |-> c.note, timestamp |-> ts]

ObjectWithUser(c, ts, u) ==
    [mood |-> c.mood, note_title |-> c.note_title, note |-> c.note,
     timestamp |-> ts, user |-> u]

Without(obj, key) == [k \in DOMAIN obj \ {key} |-> obj[k]]

Happy == [mood |-> "happy", note_title |-> "T", note |-> "N"]
Sad   == [mood |-> "sad",   note_title |-> "U", note |-> "M"]

\* The objects of the JSON documents uploaded: two well-formed ones (one also
\* names a user), two whose timestamp is not in the exact notation, one
\* without one of the keys.
JsonObjects ==
    { Object(Happy, ExactText),
      ObjectWithUser(Sad, ExactText, "u1"),
      Object(Happy, JunkText),
      Object(Sad, IsoText),
      Without(Object(Sad, ExactText), "note") }

JsonDocs ==
    {<<>>} \cup { <<a>> : a \in JsonObjects }
           \cup { <<a, b>> : a \in JsonObjects, b \in JsonObjects }

JsonContent(doc) ==
    [fmt |-> "json", valid |-> TRUE, header |-> <<>>, rows |-> <<>>, doc |-> doc]

\* A file that is not JSON at all.
JsonGarbage ==
    [fmt |-> "json", valid |-> FALSE, header |-> <<>>, rows |-> <<>>, doc |-> <<>>]

\* One line of a CSV file under a header: the cells in the header's order.
Line(header, obj) == [i \in 1..Len(header) |-> obj[header[i]]]

CsvObjects ==
    { ObjectWithUser(Happy, ExactText, "u1"),
      ObjectWithUser(Sad, IsoText, "u1"),
      ObjectWithUser(Happy, JunkText, "u1") }

CsvContent(header, objs) ==
    [fmt |-> "csv", valid |-> TRUE, header |-> header,
     rows |-> [i \in 1..Len(objs) |-> Line(header, objs[i])], doc |-> <<>>]

\* A file the csv module refuses while reading (csv.Error).
CsvGarbage ==
    [fmt |-> "csv", valid |-> FALSE, header |-> Columns, rows |-> <<>>, doc |-> <<>>]

CsvContents ==
    { CsvContent(Columns, objs) :
        objs \in {<<>>} \cup { <<a>> : a \in CsvObjects }
                        \cup { <<a, b>> : a \in CsvObjects, b \in CsvObjects } }
    \cup { CsvContent(Columns \o <<"user">>, <<ObjectWithUser(Sad, IsoText, "u1")>>),
           CsvContent(<<"mood", "note_title", "timestamp">>,
                      <<ObjectWithUser(Happy, ExactText, "u1")>>) }
    \cup { CsvGarbage }

\* The files the model uploads: CSV text under a .csv name, JSON text under a
\* .json name, and files under names with neither ending.
Uploads ==
    { [name |-> CsvName, content |-> c] : c \in CsvContents }
    \cup { [name |-> JsonName, content |-> JsonContent(d)] : d \in JsonDocs }
    \cup { [name |-> JsonName, content |-> JsonGarbage] }
    \cup { [name |-> n, content |-> CsvContent(Columns, <<o>>)] :
             n \in OtherNames, o \in {ObjectWithUser(Happy, ExactText, "u1")} }
    \cup { [name |-> <<"j", "s", "o", "n">>,
            content |-> JsonContent(<<Object(Happy, ExactText)>>)] }

(***************************************************************************)
(* MoodImportView                                                          *)
(***************************************************************************)

Range(seq) == { seq[i] : i \in 1..Len(seq) }

\* csv.DictReader over the lines: the first line names the columns, every
\* other line becomes a dict from column name to cell.
DictReader(content) ==
    [i \in 1..Len(content.rows) |->
        [k \in Range(content.header) |->
            content.rows[i][CHOOSE j \in 1..Len(content.header) :
                                content.header[j] = k]]]

\* json.loads of a valid document: the list of objects.
json_loads(content) == content.doc

has_columns(item) == \A i \in 1..Len(Columns) : Columns[i] \in DOMAIN item

\* A wrong row constructor: the timestamp cell is rewritten in the exact
\* notation before it is stored.
csv_mood_normalised(user, row) ==
    Mood(user, row["mood"], row["note_title"], row["note"],
         strftime(to_python(row["timestamp"])), user)

\* Mood(user=self.request.user, mood=row["mood"], ..., timestamp=row["timestamp"])
csv_mood(user, row) ==
    Mood(user, row["mood"], row["note_title"], row["note"], row["timestamp"], user)

\* Mood(user=self.request.user, mood=item["mood"], ...,
\*      timestamp=datetime.strptime(item["timestamp"], "%Y-%m-%d %H:%M:%S %z"))
json_mood(user, item) ==
    Mood(user, item["mood"], item["note_title"], item["note"],
         strptime(item["timestamp"]), user)

\* The list comprehension of the CSV branch: one Mood per row, the cells
\* taken as they are; a row without one of the columns raises KeyError.
\* moods is the list built so far.
RECURSIVE csv_moods(_, _)
csv_moods(user, rows) ==
    IF rows = <<>> THEN [exception |-> "none", moods |-> <<>>]
    ELSE LET row == Head(rows) IN
         IF ~has_columns(row) THEN [exception |-> "KeyError", moods |-> <<>>]
         ELSE LET rest == csv_moods(user, Tail(rows))
              IN  [exception |-> rest.exception,
                   moods |-> <<csv_mood(user, row)>> \o rest.moods]

\* The list comprehension of the JSON branch: one Mood per item, the
\* timestamp parsed by strptime; a missing key raises KeyError, a timestamp
\* strptime does not accept raises ValueError.
RECURSIVE json_moods(_, _)
json_moods(user, items) ==
    IF items = <<>> THEN [exception |-> "none", moods |-> <<>>]
    ELSE LET item == Head(items) IN
         IF ~has_columns(item) THEN [exception |-> "KeyError", moods |-> <<>>]
         ELSE IF ~strptime_ok(item["timestamp"])
         THEN [exception |-> "ValueError", moods |-> <<>>]
         ELSE LET rest == json_moods(user, Tail(items))
              IN  [exception |-> rest.exception,
                   moods |-> <<json_mood(user, item)>> \o rest.moods]

\* The body of the try block: read and decode the file, build the moods.
try_block(user, file) ==
    IF endswith(file.name, DotCsv)
    THEN IF file.content.valid
         THEN csv_moods(user, DictReader(file.content))
         ELSE [exception |-> "csv.Error", moods |-> <<>>]
    ELSE IF file.content.valid
         THEN json_moods(user, json_loads(file.content))
         ELSE [exception |-> "JSONDecodeError", moods |-> <<>>]

\* Mood.objects.bulk_create(moods): one INSERT of all the rows; a value the
\* timestamp column cannot hold fails the whole call.
bulk_create_ok(moods) == \A i \in 1..Len(moods) : column_accepts(moods[i].timestamp)

Outcome(status, error, exception, parsed, built, inserted) ==
    [status |-> status, error |-> error, exception |-> exception,
     parsed |-> parsed, built |-> built, inserted |-> inserted]

\* A wrong form_valid: each Mood is saved as soon as it is built.
form_valid_import_row_by_row(user, file) ==
    IF ~(endswith(file.name, DotCsv) \/ endswith(file.name, DotJson))
    THEN Outcome("form_invalid", "Only CSV or JSON files are allowed.", "none",
                 FALSE, 0, <<>>)
    ELSE LET r == try_block(user, file) IN
         IF r.exception \in {"csv.Error", "JSONDecodeError"}
         THEN Outcome("form_invalid", "Error reading file", r.exception, TRUE,
                      Len(r.moods), r.moods)
         ELSE IF r.exception # "none"
         THEN Outcome("error500", "", r.exception, TRUE, Len(r.moods), r.moods)
         ELSE IF ~bulk_create_ok(r.moods)
         THEN Outcome("error500", "", "ValidationError", TRUE, Len(r.moods), <<>>)
         ELSE Outcome("redirect", "", "none", TRUE, Len(r.moods), r.moods)

\* MoodImportView.form_valid: the name check, the try block with its except
\* clause (csv.Error and json.JSONDecodeError only), the redirect.  Any other
\* exception leaves the view unhandled (status error500).  inserted is what
\* the request adds to the table.
form_valid_import(user, file) ==
    IF ~(endswith(file.name, DotCsv) \/ endswith(file.name, DotJson))
    THEN Outcome("form_invalid", "Only CSV or JSON files are allowed.", "none",
                 FALSE, 0, <<>>)
    ELSE LET r == try_block(user, file) IN
         IF r.exception \in {"csv.Error", "JSONDecodeError"}
         THEN Outcome("form_invalid", "Error reading file", r.exception, TRUE,
                      Len(r.moods), <<>>)
         ELSE IF r.exception # "none"
         THEN Outcome("error500", "", r.exception, TRUE, Len(r.moods), <<>>)
         ELSE IF ~bulk_create_ok(r.moods)
         THEN Outcome("error500", "", "ValidationError", TRUE, Len(r.moods), <<>>)
         ELSE Outcome("redirect", "", "none", TRUE, Len(r.moods), r.moods)

\* MoodImportView.post: a POST without a file fails the form's own
\* validation; any other goes to form_valid.
MoodImportView(user, file) ==
    IF file = NoFile
    THEN /\ response' = [Blank EXCEPT !.status = "form_invalid",
                                      !.error = "This field is required."]
         /\ UNCHANGED store
    ELSE LET o == form_valid_import(user, file) IN
         /\ store' = store \o o.inserted
         /\ response' = [Blank EXCEPT !.status = o.status,
                                      !.error = o.error,
                                      !.exception = o.exception,
                                      !.parsed = o.parsed, !.built = o.built]

(***************************************************************************)
(* MoodExportView                                                          *)
(***************************************************************************)

\* Mood.objects.filter(user=self.request.user): the rows of the user, as
\* positions in the table.
filter_user(user) == { i \in 1..Len(store) : store[i].user = user }

Orderings(rows) ==
    { q \in [1..Cardinality(rows) -> rows] :
        \A i, j \in 1..Cardinality(rows) : i # j => q[i] # q[j] }

\* A wrong ordering: oldest first.
order_by_timestamp_ascending(rows) ==
    { q \in Orderings(rows) :
        \A i, j \in 1..Len(q) :
            i < j => Instant(to_python(store[q[i]].timestamp))
                       <= Instant(to_python(store[q[j]].timestamp)) }

\* .order_by("-timestamp"): the orders of the rows in which no row comes
\* before a later one; rows of the same instant come in either order.
order_by_timestamp_descending(rows) ==
    { q \in Orderings(rows) :
        \A i, j \in 1..Len(q) :
            i < j => Instant(to_python(store[q[i]].timestamp))
                       >= Instant(to_python(store[q[j]].timestamp)) }

\* The four values written for one row, by column name.
export_record(mood) ==
    [mood |-> mood.mood, note_title |-> mood.note_title, note |-> mood.note,
     timestamp |-> strftime(to_python(mood.timestamp))]

\* json.dumps of the list of dicts, as the document a reader gets back.
export_json(q) ==
    JsonContent([i \in 1..Len(q) |-> export_record(store[q[i]])])

\* The header row and one row per mood, through csv.writer.
export_csv(q) ==
    [fmt |-> "csv", valid |-> TRUE, header |-> Columns,
     rows |-> [i \in 1..Len(q) |-> Line(Columns, export_record(store[q[i]]))],
     doc |-> <<>>]

\* MoodExportView.post: an export_format the form does not offer fails the
\* form; otherwise the user's rows, newest first, in the chosen format.
MoodExportView(user, export_format) ==
    /\ IF export_format \notin {"csv", "json"}
       THEN response' = [Blank EXCEPT !.status = "form_invalid",
                                      !.error = "Select a valid choice."]
       ELSE \E q \in order_by_timestamp_descending(filter_user(user)) :
              response' = [Blank EXCEPT !.status = "ok",
                              !.download = IF export_format = "json"
                                           THEN export_json(q) ELSE export_csv(q)]
    /\ UNCHANGED store

(***************************************************************************)
(* The request cycle                                                       *)
(***************************************************************************)

Forms ==
    { [mood |-> c.mood, note_title |-> c.note_title, note |-> c.note, user |-> fu] :
        c \in Contents, fu \in Users }

Views == {"list", "create", "update", "delete", "import", "export"}

\* The requests that can arrive at the table as it is.
Requests ==
    { [NoRequest EXCEPT !.op = "list", !.user = u] : u \in Users }
    \cup { [NoRequest EXCEPT !.op = "create", !.user = u, !.form = f] :
             u \in { v \in Users : Len(store) < MaxEntries }, f \in Forms }
    \cup { [NoRequest EXCEPT !.op = "update", !.user = u, !.target = pk, !.form = f] :
             u \in Users, pk \in 1..Len(store), f \in Forms }
    \cup { [NoRequest EXCEPT !.op = "delete", !.user = u, !.target = pk] :
             u \in Users, pk \in 1..Len(store) }
    \cup { [NoRequest EXCEPT !.op = "import", !.user = u, !.file = f] :
             u \in Users,
             f \in { g \in Uploads :
                       \A v \in Users :
                           Len(store) + Len(form_valid_import(v, g).inserted)
                               <= MaxEntries }
                   \cup {NoFile} }
    \cup { [NoRequest EXCEPT !.op = "export", !.user = u, !.export_format = x] :
             u \in Users, x \in {"csv", "json", "xml"} }
    \cup { [NoRequest EXCEPT !.op = v, !.user = "anonymous"] : v \in Views }

\* A request arrives.
Receive ==
    /\ pc = "idle"
    /\ \E r \in Requests : request' = r
    /\ pc' = "received"
    /\ UNCHANGED <<store, response>>

\* The exchange is over; the server waits for the next request.
Close ==
    /\ pc = "responded"
    /\ pc' = "idle"
    /\ request' = NoRequest
    /\ response' = Blank
    /\ UNCHANGED store

Dispatch(op) ==
    /\ pc = "received"
    /\ request.op = op
    /\ request.user \in Users
    /\ pc' = "responded"
    /\ UNCHANGED request

Next ==
    \/ Receive
    \/ Close
    \/ Dispatch("list") /\ MoodListView(request.user)
    \/ Dispatch("create") /\ MoodCreateView(request.user, request.form)
    \/ Dispatch("update") /\ MoodUpdateView(request.user, request.target, request.form)
    \/ Dispatch("delete") /\ MoodDeleteView(request.user, request.target)
    \/ Dispatch("import") /\ MoodImportView(request.user, request.file)
    \/ Dispatch("export") /\ MoodExportView(request.user, request.export_format)
    \/ /\ pc = "received"
       /\ request.user \notin Users
       /\ pc' = "responded"
       /\ UNCHANGED request
       /\ LoginRequiredMixin

Spec == Init /\ [][Next]_vars

(***************************************************************************)
(* Export followed by import of the exported file                          *)
(***************************************************************************)

\* The values a stored timestamp takes: the submission time of a created
\* row, the datetime parsed from a JSON import, the cell of a CSV import.
StoredTimestamps == {Now, strptime(ExactText), ExactText, IsoText}

Rows ==
    { Mood(u, c.mood, c.note_title, c.note, ts, u) :
        u \in Users, c \in Contents, ts \in StoredTimestamps }

\* The tables of at most MaxExported rows.
Tables == UNION { [1..n -> Rows] : n \in 0..MaxExported }

InitRoundTrip ==
    /\ store \in Tables
    /\ pc = "idle"
    /\ request = NoRequest
    /\ response = Blank

\* An export request arrives.
ReceiveExport ==
    /\ pc = "idle"
    /\ Len(store) <= MaxExported
    /\ \E u \in Users, x \in {"csv", "json"} :
          request' = [NoRequest EXCEPT !.op = "export", !.user = u,
                                       !.export_format = x]
    /\ pc' = "received"
    /\ UNCHANGED <<store, response>>

\* The user who was sent an export uploads that file to the import view.
Reupload ==
    /\ pc = "responded"
    /\ request.op = "export"
    /\ response.status = "ok"
    /\ request' = [NoRequest EXCEPT
                      !.op = "import", !.user = request.user,
                      !.file = [name |-> IF response.download.fmt = "json"
                                         THEN JsonName ELSE CsvName,
                                content |-> response.download]]
    /\ pc' = "received"
    /\ UNCHANGED <<store, response>>

NextRoundTrip ==
    \/ ReceiveExport
    \/ Dispatch("export") /\ MoodExportView(request.user, request.export_format)
    \/ Reupload
    \/ Dispatch("import") /\ MoodImportView(request.user, request.file)
    \/ Close

SpecRoundTrip == InitRoundTrip /\ [][NextRoundTrip]_vars

(***************************************************************************)
(* Properties                                                              *)
(***************************************************************************)

\* The view for op has answered the request of an authenticated user.
Handled(op) == pc = "responded" /\ request.op = op /\ request.user \in Users

\* The view for op is about to serve the request of an authenticated user.
Handling(op) == pc = "received" /\ request.op = op /\ request.user \in Users

OwnedBy(user) == { i \in 1..Len(store) : store[i].user = user }

\* Two timestamps denote the same second.
SameSecond(a, b) == Instant(to_python(a)) \div 2 = Instant(to_python(b)) \div 2

LastChars(name, n) == [i \in 1..n |-> name[Len(name) - n + i]]

NeitherEnding(name) ==
    /\ ~(Len(name) >= 4 /\ LastChars(name, 4) = <<".", "c", "s", "v">>)
    /\ ~(Len(name) >= 5 /\ LastChars(name, 5) = <<".", "j", "s", "o", "n">>)

RecordCount(file) ==
    IF file.content.fmt = "csv" THEN Len(file.content.rows) ELSE Len(file.content.doc)

BadTimestampAt(doc, i) ==
    "timestamp" \in DOMAIN doc[i] /\ doc[i]["timestamp"].form # "exact"

LacksKeyAt(doc, i) ==
    \E k \in {"mood", "note_title", "note", "timestamp"} : k \notin DOMAIN doc[i]

\* A .json upload that parses and holds a record whose timestamp is not in
\* the exact notation.
JsonWithBadTimestamp(file) ==
    /\ file.name = JsonName
    /\ file.content.valid
    /\ \E i \in 1..Len(file.content.doc) : BadTimestampAt(file.content.doc, i)

\* C1: the list a user gets holds the rows of that user and no other row.
C1_ListIsOwnRows ==
    Handled("list") =>
        /\ \A i \in 1..Len(response.listing) :
               response.listing[i].user = request.user
        /\ Len(response.listing) = Cardinality(OwnedBy(request.user))

\* C2: an update or delete of a row by a user who does not own it is
\* answered with permission denied and leaves the table as it was.
C2_NonOwnerDenied ==
    [][ ( /\ Handling("update") \/ Handling("delete")
          /\ request.target \in 1..Len(store)
          /\ store[request.target].user # request.user )
        => (response'.status = "forbidden" /\ store' = store) ]_vars

C2_Witness ==
    /\ Handled("update")
    /\ response.status = "forbidden"
    /\ store[request.target].user # request.user
    /\ store[request.target].mood # request.form.mood

\* C3: the owner of every row is the user whose create or import request
\* built it, whatever the form or the file said, and updates keep it.
C3_OwnerIsRequester ==
    \A i \in 1..Len(store) :
        store[i].user \in Users /\ store[i].user = store[i].creator

C3_Witness ==
    /\ Handled("create")
    /\ request.form.user # request.user
    /\ store[Len(store)].user = request.user

\* C4: an upload whose name ends in neither .csv nor .json gets the fixed
\* error on the file field, is not read, and leaves the table as it was.
C4_OtherExtensionRejected ==
    [][ ( /\ Handling("import")
          /\ request.file # NoFile
          /\ NeitherEnding(request.file.name) )
        => ( /\ response'.status = "form_invalid"
             /\ response'.error = "Only CSV or JSON files are allowed."
             /\ ~response'.parsed
             /\ store' = store ) ]_vars

C4_Witness ==
    /\ Handled("import")
    /\ request.file # NoFile
    /\ NeitherEnding(request.file.name)
    /\ Len(request.file.name) > 5
    /\ response.status = "form_invalid"
    /\ store # <<>>

\* C5, as claimed: a .json upload with a record whose timestamp is not in
\* the exact notation fails with a timestamp error and inserts nothing.
C5_FailsWithTimestampError ==
    [][ ( Handling("import") /\ JsonWithBadTimestamp(request.file) )
        => ( /\ response'.status # "redirect"
             /\ response'.exception = "ValueError"
             /\ store' = store ) ]_vars

\* C5, amended: such an upload fails and inserts nothing; the failure is the
\* timestamp error unless a record without one of the keys stands at or
\* before the first such record, and then it is the missing-key error.
C5_FailsAndInsertsNothing ==
    [][ ( Handling("import") /\ JsonWithBadTimestamp(request.file) )
        => LET doc == request.file.content.doc
               keyFirst == \E i \in 1..Len(doc) :
                              /\ LacksKeyAt(doc, i)
                              /\ \A j \in 1..(i - 1) : ~BadTimestampAt(doc, j)
           IN  /\ response'.status # "redirect"
               /\ response'.exception = IF keyFirst THEN "KeyError" ELSE "ValueError"
               /\ store' = store ]_vars

C5_Witness ==
    /\ Handled("import")
    /\ JsonWithBadTimestamp(request.file)
    /\ response.exception = "ValueError"
    /\ response.built >= 1
    /\ Len(request.file.content.doc) > response.built

\* C6: every import error (extension, syntax, missing key, timestamp) ends
\* with the import form shown again and an error on its file field.
C6_ImportErrorsOnForm ==
    ( /\ Handled("import")
      /\ request.file # NoFile
      /\ response.status # "redirect"
      /\ response.exception # "ValidationError" )
    => (response.status = "form_invalid" /\ response.error # "")

\* C7: an import inserts one row per record of the file, each owned by the
\* requesting user, or fails and inserts none; the rows that were in the
\* table stay as they were.
C7_AllOrNothing ==
    [][ ( Handling("import") /\ request.file # NoFile )
        => \/ /\ response'.status = "redirect"
              /\ Len(store') = Len(store) + RecordCount(request.file)
              /\ SubSeq(store', 1, Len(store)) = store
              /\ \A i \in (Len(store) + 1)..Len(store') :
                     store'[i].user = request.user
           \/ /\ response'.status # "redirect"
              /\ store' = store ]_vars

C7_Witness ==
    /\ Handled("import")
    /\ response.status = "error500"
    /\ response.built >= 1
    /\ store # <<>>

\* C8: importing the JSON export of a user's rows as that user succeeds and
\* appends one row per exported row with the same mood, note_title and note
\* and a timestamp in the same second.
C8_RoundTrip ==
    [][ ( /\ Handling("import")
          /\ response.status = "ok"
          /\ response.download.fmt = "json"
          /\ request.file.content = response.download )
        => /\ response'.status = "redirect"
           /\ \E q \in Orderings(OwnedBy(request.user)) :
                /\ Len(store') = Len(store) + Len(q)
                /\ SubSeq(store', 1, Len(store)) = store
                /\ \A i \in 1..Len(q) :
                     LET new == store'[Len(store) + i]
                         old == store[q[i]]
                     IN  /\ new.user = request.user
                         /\ new.mood = old.mood
                         /\ new.note_title = old.note_title
                         /\ new.note = old.note
                         /\ SameSecond(new.timestamp, old.timestamp) ]_vars

C8_Witness ==
    /\ Handled("import")
    /\ request.file.content.fmt = "json"
    /\ response.status = "redirect"
    /\ response.built = 2
    /\ Len(store) >= 4
    /\ \E i \in 1..(Len(store) - 2) :
          store[i].user = request.user /\ store[i].timestamp.sub = 1
    /\ \E i \in 1..(Len(store) - 2) :
          store[i].user = request.user /\ store[i].timestamp.kind = "text"

\* C9: an export holds one record per row of the user and none of another
\* user, newest first; a CSV export starts with the header row.
C9_ExportNewestFirst ==
    ( Handled("export") /\ response.status = "ok" )
    => LET d == response.download
           n == IF d.fmt = "json" THEN Len(d.doc) ELSE Len(d.rows)
           cell(i, k) == IF d.fmt = "json" THEN d.doc[i][Columns[k]]
                                           ELSE d.rows[i][k]
       IN  /\ d.fmt = request.export_format
           /\ d.fmt = "csv" => d.header = <<"mood", "note_title", "note", "timestamp">>
           /\ \E q \in Orderings(OwnedBy(request.user)) :
                /\ n = Len(q)
                /\ \A i \in 1..n :
                     /\ cell(i, 1) = store[q[i]].mood
                     /\ cell(i, 2) = store[q[i]].note_title
                     /\ cell(i, 3) = store[q[i]].note
                     /\ cell(i, 4).form = "exact"
                     /\ SameSecond(cell(i, 4), store[q[i]].timestamp)
                /\ \A i, j \in 1..n :
                     i < j => Instant(to_python(store[q[i]].timestamp))
                                >= Instant(to_python(store[q[j]].timestamp))

C9_Witness ==
    /\ Handled("export")
    /\ request.export_format = "csv"
    /\ response.status = "ok"
    /\ Len(response.download.rows) = 2
    /\ store[1].user = request.user
    /\ store[2].user = request.user
    /\ Instant(to_python(store[1].timestamp)) < Instant(to_python(store[2].timestamp))
    /\ response.download.rows[1][1] = store[2].mood
    /\ store[1].mood # store[2].mood

\* C10: a successful .csv import under the header mood,note_title,note,
\* timestamp appends one row per data row, owned by the uploading user, with
\* the four cells as they stand in the file.
C10_CsvRowsVerbatim ==
    [][ ( /\ Handling("import")
          /\ request.file.name = CsvName
          /\ request.file.content.header = <<"mood", "note_title", "note", "timestamp">>
          /\ response'.status = "redirect" )
        => LET rows == request.file.content.rows
           IN  store' = store \o
                   [i \in 1..Len(rows) |->
                       [user |-> request.user, mood |-> rows[i][1],
                        note_title |-> rows[i][2], note |-> rows[i][3],
                        timestamp |-> rows[i][4], creator |-> request.user]] ]_vars

C10_Witness ==
    /\ Handled("import")
    /\ request.file.name = CsvName
    /\ request.file.content.header = <<"mood", "note_title", "note", "timestamp">>
    /\ response.status = "redirect"
    /\ Len(request.file.content.rows) = 2
    /\ request.file.content.rows[2][4].form = "iso"
    /\ store[Len(store)].timestamp = request.file.content.rows[2][4]
====
